---- MODULE Spec2Model ----
(***************************************************************************)
(* State-machine model of SCEnvWrapper                                     *)
(* (examples/hello_world/supply_chain/env_wrapper.py): the per-tick        *)
(* observation builder (get_state), the reward aggregator (get_reward)     *)
(* and the action translator (get_action), driven by an engine that        *)
(* advances ticks and publishes a metrics dict and snapshots per tick.     *)
(*                                                                         *)
(* Numbers.  Python floats are modelled as exact rationals <<num, den>>    *)
(* with den > 0, kept in lowest terms; rounding is not modelled.           *)
(* Optional values (None) are sequences of length 0 or 1.  Dicts are       *)
(* functions; "key in dict" is membership in DOMAIN.                       *)
(***************************************************************************)
EXTENDS Integers, Sequences, FiniteSets, TLC

\* ------------------------------------------------------------- bounds
\* Last tick the engine advances to.
MaxTick == 2
\* Largest quantity the engine reports (stock, orders, sales figures).
MaxQty == 3
\* settings: the history/window lengths of the configuration.
ConstraintStateHistLen == 1
SaleHistLen == 2
ConsumptionHistLen == 2
PendingOrderLen == 2

\* ---------------------------------------------------------- rationals
RECURSIVE Gcd(_, _)
Gcd(a, b) == IF b = 0 THEN a ELSE Gcd(b, a % b)

Abs(n) == IF n < 0 THEN -n ELSE n

\* n/d in lowest terms with a positive denominator (d # 0).
Rat(n, d) ==
    LET g == Gcd(Abs(n), Abs(d))
        s == IF d < 0 THEN -1 ELSE 1
    IN  <<(s * n) \div g, (s * d) \div g>>

R(n) == <<n, 1>>
RAdd(x, y) == Rat(x[1] * y[2] + y[1] * x[2], x[2] * y[2])
RSub(x, y) == Rat(x[1] * y[2] - y[1] * x[2], x[2] * y[2])
RMul(x, y) == Rat(x[1] * y[1], x[2] * y[2])
RLeq(x, y) == x[1] * y[2] <= y[1] * x[2]
RLess(x, y) == x[1] * y[2] < y[1] * x[2]
RMax(x, y) == IF RLess(x, y) THEN y ELSE x
RMin(x, y) == IF RLess(y, x) THEN y ELSE x

\* A sequence or function given by a rule, as the table of its values (the
\* rule is evaluated once per element, when the table is built).
SeqOf(s) == s \o <<>>
Table(f) == f @@ <<>>

\* [v] * n
Repeat(v, n) == SeqOf([i \in 1..n |-> v])

RECURSIVE SumSeq(_)
SumSeq(s) == IF Len(s) = 0 THEN 0 ELSE Head(s) + SumSeq(Tail(s))

\* Python's None and a present value.
None == <<>>
Some(v) == <<v>>
IsNone(o) == Len(o) = 0
Val(o) == o[1]

\* ------------------------------------------ the engine's static summary
\* One unit of the node-mapping summary: id, node_index and config.
UnitSummary(id, node_index, config) ==
    [id |-> id, node_index |-> node_index, config |-> config]

\* A product unit's summary: its own id and max_vlt plus the optional
\* seller, consumer and manufacture sub-units.
ProductSummary(id, node_index, max_vlt, seller, consumer, manufacture) ==
    [id |-> id, node_index |-> node_index, config |-> <<>>, max_vlt |-> max_vlt,
     seller |-> seller, consumer |-> consumer, manufacture |-> manufacture]

\* The SKU catalogue, summary["skus"], in its fixed order; ids are dense
\* from 1.  service_level is the rational sl.
SkuCatalogue(sl) ==
    <<[id |-> 1, price |-> 10, cost |-> 5, service_level |-> sl],
      [id |-> 2, price |-> 4, cost |-> 6, service_level |-> sl]>>

\* summary["facilities"]: facility 1 is a retailer whose product 5 (SKU 1)
\* has a consumer (unit 6) and, with hasSeller, a seller (unit 7), and whose
\* product 8 (SKU 2) has neither; facilities 2 and 3 supply SKU 1.  cap is
\* the capacity of facility 1's storage, ups its upstream list for SKU 1
\* and mv product 5's max_vlt.
FacilitiesSummary(cap, ups, mv, hasSeller) ==
    (1 :> [node_index |-> 0,
           configs |-> [kind |-> "retailer"],
           upstreams |-> (1 :> ups),
           skus |-> (1 :> [vlt |-> 1, sale_gamma |-> 2]) @@ (2 :> [vlt |-> 1, sale_gamma |-> 1]),
           units |-> [storage |-> Some(UnitSummary(17, 0, [capacity |-> cap])),
                      distribution |-> None,
                      products |->
                          (1 :> ProductSummary(5, 0, mv,
                                    IF hasSeller THEN Some(UnitSummary(7, 0, <<>>)) ELSE None,
                                    Some(UnitSummary(6, 0, <<>>)), None))
                       @@ (2 :> ProductSummary(8, 1, 0, None, None,
                                    Some(UnitSummary(9, 0, <<>>))))]])
    @@
    (2 :> [node_index |-> 1,
           configs |-> [kind |-> "supplier"],
           upstreams |-> <<>>,
           skus |-> (1 :> [vlt |-> 2, sale_gamma |-> 0]),
           units |-> [storage |-> Some(UnitSummary(18, 1, [capacity |-> 20])),
                      distribution |-> Some(UnitSummary(10, 0, <<>>)),
                      products |->
                          (1 :> ProductSummary(11, 2, 0, None, None,
                                    Some(UnitSummary(12, 1, <<>>))))]])
    @@
    (3 :> [node_index |-> 2,
           configs |-> [kind |-> "supplier"],
           upstreams |-> <<>>,
           skus |-> (1 :> [vlt |-> 3, sale_gamma |-> 0]),
           units |-> [storage |-> Some(UnitSummary(14, 2, [capacity |-> 20])),
                      distribution |-> Some(UnitSummary(16, 1, <<>>)),
                      products |->
                          (1 :> ProductSummary(13, 3, 0, None, None,
                                    Some(UnitSummary(15, 2, <<>>))))]])

\* env.summary['node_mapping'].
NodeMapping(cap, ups, mv, hasSeller, sl) ==
    [agent_types |-> <<"retailer", "supplier", "product">>,
     skus |-> SkuCatalogue(sl),
     facilities |-> FacilitiesSummary(cap, ups, mv, hasSeller)]

\* The SKU record with id sid in the catalogue.
SkuById(smry, sid) ==
    LET i == CHOOSE k \in 1..Len(smry.skus) : smry.skus[k].id = sid IN smry.skus[i]

\* env.agent_idx_list: one AgentInfo per facility, then one per product unit
\* of that facility, in facility order.
FacilityAgents(smry, fid) ==
    LET prods == smry.facilities[fid].units.products
        skuSeq == [i \in 1..Len(smry.skus) |-> smry.skus[i].id]
        present == SelectSeq(skuSeq, LAMBDA sid : sid \in DOMAIN prods)
    IN  <<[id |-> fid, facility_id |-> fid, agent_type |-> fid, is_facility |-> TRUE,
           sku |-> None]>>
        \o [i \in 1..Len(present) |->
               [id |-> prods[present[i]].id, facility_id |-> fid, agent_type |-> 3,
                is_facility |-> FALSE, sku |-> Some(SkuById(smry, present[i]))]]

AgentIdxList(smry) ==
    FacilityAgents(smry, 1) \o FacilityAgents(smry, 2) \o FacilityAgents(smry, 3)

\* ------------------------------------------------- SCEnvWrapper.__init__
UnitBaseInfo(unit_summary) ==
    [id |-> unit_summary.id, node_index |-> unit_summary.node_index,
     config |-> unit_summary.config, summary |-> unit_summary]

\* product_info: "skuproduct" always, "seller"/"consumer"/"manufacture" only
\* when the summary holds that sub-unit.
ProductInfo(product) ==
    LET keys == {"skuproduct"}
                \cup (IF IsNone(product.seller) THEN {} ELSE {"seller"})
                \cup (IF IsNone(product.consumer) THEN {} ELSE {"consumer"})
                \cup (IF IsNone(product.manufacture) THEN {} ELSE {"manufacture"})
    IN  [k \in keys |->
            IF k = "skuproduct" THEN UnitBaseInfo(product)
            ELSE IF k = "seller" THEN UnitBaseInfo(Val(product.seller))
            ELSE IF k = "consumer" THEN UnitBaseInfo(Val(product.consumer))
            ELSE UnitBaseInfo(Val(product.manufacture))]

\* facility_levels[facility_id]; the units dict holds "storage" and
\* "distribution" only when present, products is keyed by product id.
FacilityLevel(facility) ==
    LET units == facility.units
        keys == (IF IsNone(units.storage) THEN {} ELSE {"storage"})
                \cup (IF IsNone(units.distribution) THEN {} ELSE {"distribution"})
    IN  [node_index |-> facility.node_index,
         config |-> facility.configs,
         upstreams |-> facility.upstreams,
         skus |-> facility.skus,
         units |-> [k \in keys |-> IF k = "storage" THEN UnitBaseInfo(Val(units.storage))
                                   ELSE UnitBaseInfo(Val(units.distribution))],
         products |-> [pid \in DOMAIN units.products |-> ProductInfo(units.products[pid])]]

BuildFacilityLevels(smry) ==
    [fid \in DOMAIN smry.facilities |-> FacilityLevel(smry.facilities[fid])]

\* The (unit id, facility id) pairs __init__ records for one facility.
UnitPairs(smry, fid) ==
    LET units == smry.facilities[fid].units
        opt(o) == IF IsNone(o) THEN {} ELSE {<<Val(o).id, fid>>}
    IN  opt(units.storage) \cup opt(units.distribution)
        \cup UNION {{<<units.products[p].id, fid>>}
                    \cup opt(units.products[p].seller)
                    \cup opt(units.products[p].consumer)
                    \cup opt(units.products[p].manufacture) : p \in DOMAIN units.products}

BuildUnit2Facility(smry) ==
    LET pairs == UNION {UnitPairs(smry, fid) : fid \in DOMAIN smry.facilities}
    IN  [u \in {p[1] : p \in pairs} |-> (CHOOSE p \in pairs : p[1] = u)[2]]

\* self._sku_number
SkuNumber(smry) == Len(smry.skus) + 1

\* --------------------------------------------- the engine, per tick
\* metrics["max_sources_per_facility"]: the longest upstream list of the
\* topology.
MaxSourcesPerFacility(smry) ==
    LET lens == {0} \cup UNION {{Len(smry.facilities[f].upstreams[sid]) :
                                    sid \in DOMAIN smry.facilities[f].upstreams} :
                                f \in DOMAIN smry.facilities}
    IN  CHOOSE m \in lens : \A l \in lens : l <= m

ProductUnitIds(smry) ==
    UNION {{smry.facilities[f].units.products[p].id :
               p \in DOMAIN smry.facilities[f].units.products} : f \in DOMAIN smry.facilities}

\* The entities the engine keeps a balance sheet for: facilities and their
\* product units.
BalanceEntities(smry) == DOMAIN smry.facilities \cup ProductUnitIds(smry)

\* env.metrics of one tick.  bs is the step balance sheet, sm and sd the
\* sales estimates and pod the pending_order_daily list of every product,
\* ito the in-transit quantity and po the optional pending-order quantity of
\* SKU 1 at every facility.
EnvMetrics(smry, bs, sm, sd, pod, ito, po) ==
    [max_sources_per_facility |-> MaxSourcesPerFacility(smry),
     max_price |-> R(10),
     step_balance_sheet |-> bs,
     facilities |-> [f \in DOMAIN smry.facilities |->
         [in_transit_orders |-> [i \in 1..Len(smry.skus) |-> IF i = 1 THEN ito ELSE 0],
          pending_order |-> IF IsNone(po) THEN None
                            ELSE Some([i \in 1..Len(smry.skus) |-> IF i = 1 THEN Val(po) ELSE 0])]],
     products |-> [p \in ProductUnitIds(smry) |->
         [sale_mean |-> sm, sale_std |-> sd, pending_order_daily |-> pod]]]

\* One tick of the snapshot store: per storage node the product list and
\* numbers, per consumer node latest_consumptions, per seller node sold,
\* demand and total_demand.  q is the stock of SKU 1 at facility 1's storage.
Frame(q, consumed, sold) ==
    [storage |-> [n \in 0..2 |->
         IF n = 0 THEN [product_list |-> <<1, 2>>, product_number |-> <<q, 1>>]
         ELSE [product_list |-> <<1>>, product_number |-> <<MaxQty>>]],
     consumer |-> [n \in {0} |-> [latest_consumptions |-> consumed]],
     seller |-> [n \in {0} |-> [sold |-> sold, demand |-> sold + 1, total_demand |-> sold + 1]]]

\* snapshot_list[node_type][tick:node_index:attr]: the committed value, and
\* zero for a tick before the start.
SnapshotPoint(ss, node_type, t, node_index, attr) ==
    IF t < 0 \/ t + 1 > Len(ss) THEN 0 ELSE ss[t + 1][node_type][node_index][attr]

\* A window query [tick - i for i in range(n)], most recent first.
SnapshotWindow(ss, node_type, t, n, node_index, attr) ==
    SeqOf([i \in 1..n |-> SnapshotPoint(ss, node_type, t - (i - 1), node_index, attr)])

\* -------------------------------------------------- feature extractors
\* Each extractor returns the fields it writes.  c is the context of the
\* call: tick, metrics (self._cur_metrics), snapshot_list, summary, settings,
\* facility_levels and storage_products (self._cur_facility_storage_products).
\* Python lists are sequences: list index k is sequence index k + 1.
\* Fields no claim reads and the serializer does not emit (facility_type,
\* the atoms, bom_*, distributor_*, echelon_level, is_positive_balance) are
\* left out.

SumOver(f, S) ==
    LET RECURSIVE go(_)
        go(T) == IF T = {} THEN 0
                 ELSE LET x == CHOOSE y \in T : TRUE IN f[x] + go(T \ {x})
    IN  go(S)

\* _add_facility_features
AddFacilityFeatures(c, a) ==
    [is_accepted |-> Repeat(R(0), c.settings.constraint_state_hist_len),
     constraint_idx |-> <<R(0)>>,
     facility_id |-> [i \in 1..SkuNumber(c.summary) |->
                         IF ~a.is_facility /\ i = Val(a.sku).id + 1 THEN 1 ELSE 0]]

\* _add_storage_features
AddStorageFeatures(c, a) ==
    LET facility == c.facility_levels[a.facility_id]
        sp == c.storage_products
    IN  [storage_levels |-> [i \in 1..SkuNumber(c.summary) |->
                                IF (i - 1) \in DOMAIN sp THEN sp[i - 1] ELSE 0],
         storage_capacity |-> R(facility.units["storage"].config.capacity),
         storage_utilization |-> R(SumOver(sp, DOMAIN sp))]

\* seller_ss[ticks:index:("sold", "demand")].flatten().reshape(2, -1): the
\* tick-major flattening cut into two rows of hist_len values.
SellerHistRows(c, seller_index, hist_len) ==
    LET sold == SnapshotWindow(c.snapshot_list, "seller", c.tick, hist_len, seller_index, "sold")
        demand == SnapshotWindow(c.snapshot_list, "seller", c.tick, hist_len, seller_index, "demand")
        flat == [k \in 1..(2 * hist_len) |->
                    IF k % 2 = 1 THEN sold[(k + 1) \div 2] ELSE demand[k \div 2]]
    IN  <<SubSeq(flat, 1, hist_len), SubSeq(flat, hist_len + 1, 2 * hist_len)>>

ToRats(ints) == SeqOf([i \in 1..Len(ints) |-> R(ints[i])])

\* _add_sale_features
AddSaleFeatures(c, a) ==
    LET settings == c.settings
        hist_len == settings.sale_hist_len
        consumption_hist_len == settings.consumption_hist_len
        defaults ==
            [sale_mean |-> R(1), sale_std |-> R(1), sale_gamma |-> R(1),
             service_level |-> <<19, 20>>, total_backlog_demand |-> R(0),
             sale_hist |-> Repeat(R(0), hist_len),
             backlog_demand_hist |-> Repeat(R(0), hist_len),
             consumption_hist |-> Repeat(R(0), consumption_hist_len),
             pending_order |-> Repeat(R(0), settings.pending_order_len)]
    IN  IF a.is_facility THEN defaults
        ELSE
        LET product_metrics == c.metrics.products[a.id]
            sku == Val(a.sku)
            facility == c.facility_levels[a.facility_id]
            product_info == facility.products[sku.id]
            hasConsumer == "consumer" \in DOMAIN product_info
            hasSeller == "seller" \in DOMAIN product_info
            rows == SellerHistRows(c, product_info["seller"].node_index, hist_len)
        IN  [sale_mean |-> R(product_metrics.sale_mean),
             sale_std |-> R(product_metrics.sale_std),
             sale_gamma |-> IF hasSeller THEN R(facility.skus[sku.id].sale_gamma)
                            ELSE R(product_metrics.sale_mean),
             service_level |-> sku.service_level,
             total_backlog_demand |->
                 IF hasSeller
                 THEN R(SnapshotPoint(c.snapshot_list, "seller", c.tick,
                                      product_info["seller"].node_index, "total_demand"))
                 ELSE R(0),
             sale_hist |-> IF hasSeller THEN ToRats(rows[1]) ELSE defaults.sale_hist,
             backlog_demand_hist |->
                 IF hasSeller THEN ToRats(rows[2]) ELSE defaults.backlog_demand_hist,
             consumption_hist |->
                 IF hasConsumer
                 THEN ToRats(SnapshotWindow(c.snapshot_list, "consumer", c.tick,
                                            consumption_hist_len,
                                            product_info["consumer"].node_index,
                                            "latest_consumptions"))
                 ELSE defaults.consumption_hist,
             pending_order |->
                 IF hasConsumer THEN ToRats(product_metrics.pending_order_daily)
                 ELSE defaults.pending_order]

\* dict.get(key, []) on a facility's upstreams.
SourceList(facility, sid) ==
    IF sid \in DOMAIN facility.upstreams THEN facility.upstreams[sid] ELSE <<>>

\* The 0-based slots the two per-source-per-sku loops write for the agent's
\* own SKU: i * len(sku_list) + j + 1 for source position i and catalogue
\* position j, as (slot, source position) pairs.
OwnSkuSlots(c, sid, source_list) ==
    {<<(i - 1) * Len(c.summary.skus) + (j - 1) + 1, i>> :
        <<i, j>> \in {p \in (1..Len(source_list)) \X (1..Len(c.summary.skus)) :
                         c.summary.skus[p[2]].id = sid}}

\* _add_vlt_features
AddVltFeatures(c, a) ==
    LET facility == c.facility_levels[a.facility_id]
        width == c.metrics.max_sources_per_facility * SkuNumber(c.summary)
        current_source_list == IF IsNone(a.sku) THEN <<>>
                               ELSE SourceList(facility, Val(a.sku).id)
        active == /\ ~a.is_facility
                  /\ "consumer" \in DOMAIN facility.products[Val(a.sku).id]
                  /\ Len(current_source_list) > 0
        slots == IF active THEN OwnSkuSlots(c, Val(a.sku).id, current_source_list) ELSE {}
    IN  [vlt |-> [k \in 1..width |->
                     IF \E p \in slots : p[1] = k - 1
                     THEN facility.skus[Val(a.sku).id].vlt ELSE 0],
         max_vlt |-> IF active
                     THEN R(facility.products[Val(a.sku).id]["skuproduct"].summary.max_vlt)
                     ELSE R(0)]

\* np.sqrt on the small integers max_vlt takes, to one decimal place
\* (exact on perfect squares).
Sqrt(n) ==
    Rat(CHOOSE k \in 0..(10 * (n + 1)) : k * k <= 100 * n /\ (k + 1) * (k + 1) > 100 * n, 10)

\* st.norm.ppf, the standard normal quantile, at the service levels of the
\* catalogue, to three decimal places.
NormPpf(p) ==
    CASE p = <<1, 2>> -> R(0)
      [] p = <<19, 20>> -> Rat(1645, 1000)
      [] p = <<1, 10>> -> Rat(-1282, 1000)
      [] OTHER -> R(0)

\* The estimate without the pending outflow.
InventoryEstimatedNoOutflow(in_stock, in_transit, in_distribution) ==
    RAdd(in_stock, in_transit)

\* inventory_in_stock + inventory_in_transit - inventory_in_distribution
InventoryEstimated(in_stock, in_transit, in_distribution) ==
    RSub(RAdd(in_stock, in_transit), in_distribution)

\* inventory_estimated >= 0.5 * storage_capacity
IsOverStock(estimated, storage_capacity) ==
    RLeq(RMul(<<1, 2>>, storage_capacity), estimated)

\* Out of stock already at one unit.
IsOutOfStockAtOne(estimated) == RLeq(estimated, R(1))

\* inventory_estimated <= 0
IsOutOfStock(estimated) == RLeq(estimated, R(0))

\* max_vlt * sale_mean + sqrt(max_vlt) * sale_std * ppf(service_level)
InventoryRop(max_vlt, sale_mean, sale_std, service_level) ==
    RAdd(RMul(max_vlt, sale_mean),
         RMul(RMul(Sqrt(max_vlt[1]), sale_std), NormPpf(service_level)))

\* inventory_estimated < inventory_rop
IsBelowRop(estimated, rop) == RLess(estimated, rop)

Flag(b) == IF b THEN R(1) ELSE R(0)

\* The zero defaults _add_consumer_features starts from.
ConsumerDefaults(c) ==
    [consumer_source_export_mask |->
         Repeat(0, c.metrics.max_sources_per_facility * SkuNumber(c.summary)),
     consumer_source_inventory |-> Repeat(0, SkuNumber(c.summary)),
     consumer_in_transit_orders |-> Repeat(0, SkuNumber(c.summary)),
     inventory_in_stock |-> R(0),
     inventory_in_transit |-> R(0),
     inventory_in_distribution |-> R(0),
     inventory_estimated |-> R(0),
     inventory_rop |-> R(0),
     is_over_stock |-> R(0),
     is_out_of_stock |-> R(0),
     is_below_rop |-> R(0),
     error |-> "none"]

\* The part of _add_consumer_features past its early returns.  st holds the
\* fields the earlier extractors wrote.
ConsumerComputed(c, a, st) ==
    LET sid == Val(a.sku).id
        facility == c.facility_levels[a.facility_id]
        source_list == SourceList(facility, sid)
        slots == OwnSkuSlots(c, sid, source_list)
        fmetrics == c.metrics.facilities[a.facility_id]
        in_transit_orders == fmetrics.in_transit_orders
        transit == [k \in 1..SkuNumber(c.summary) |->
                       SumOver([j \in 1..Len(c.summary.skus) |->
                                   in_transit_orders[c.summary.skus[j].id]],
                               {j \in 1..Len(c.summary.skus) : c.summary.skus[j].id = k - 1})]
        in_stock == R(c.storage_products[sid])
        in_transit == R(transit[sid + 1])
        in_distribution == IF IsNone(fmetrics.pending_order) THEN R(0)
                           ELSE R(Val(fmetrics.pending_order)[sid])
        estimated == InventoryEstimated(in_stock, in_transit, in_distribution)
        rop == InventoryRop(st.max_vlt, st.sale_mean, st.sale_std, st.service_level)
    IN  IF sid \notin DOMAIN c.storage_products
        THEN [ConsumerDefaults(c) EXCEPT !.error = "KeyError"]
        ELSE
        [consumer_source_export_mask |->
             [k \in 1..(c.metrics.max_sources_per_facility * SkuNumber(c.summary)) |->
                 IF \E p \in slots : p[1] = k - 1
                 THEN LET p == CHOOSE q \in slots : q[1] = k - 1
                      IN  c.facility_levels[source_list[p[2]]].skus[sid].vlt
                 ELSE 0],
         consumer_source_inventory |-> Repeat(0, SkuNumber(c.summary)),
         consumer_in_transit_orders |-> transit,
         inventory_in_stock |-> in_stock,
         inventory_in_transit |-> in_transit,
         inventory_in_distribution |-> in_distribution,
         inventory_estimated |-> estimated,
         inventory_rop |-> rop,
         is_over_stock |-> Flag(IsOverStock(estimated, st.storage_capacity)),
         is_out_of_stock |-> Flag(IsOutOfStock(estimated)),
         is_below_rop |-> Flag(IsBelowRop(estimated, rop)),
         error |-> "none"]

\* The extractor without its returns for an agent that has no consumer: a
\* facility agent has no sku to read.
AddConsumerFeaturesUnguarded(c, a, st) ==
    IF a.is_facility THEN [ConsumerDefaults(c) EXCEPT !.error = "AttributeError"]
    ELSE IF Len(SourceList(c.facility_levels[a.facility_id], Val(a.sku).id)) = 0
    THEN ConsumerDefaults(c)
    ELSE ConsumerComputed(c, a, st)

\* _add_consumer_features: the defaults for a facility agent, a product
\* without a consumer or an empty source list, the computed fields otherwise.
AddConsumerFeatures(c, a, st) ==
    IF a.is_facility THEN ConsumerDefaults(c)
    ELSE IF "consumer" \notin DOMAIN c.facility_levels[a.facility_id].products[Val(a.sku).id]
    THEN ConsumerDefaults(c)
    ELSE IF Len(SourceList(c.facility_levels[a.facility_id], Val(a.sku).id)) = 0
    THEN ConsumerDefaults(c)
    ELSE ConsumerComputed(c, a, st)

\* _add_price_features
AddPriceFeatures(c, a) ==
    [max_price |-> c.metrics.max_price,
     sku_price |-> IF a.is_facility THEN R(0) ELSE R(Val(a.sku).price),
     sku_cost |-> IF a.is_facility THEN R(0) ELSE R(Val(a.sku).cost)]

\* _add_global_features
AddGlobalFeatures(c) == [global_time |-> c.tick]

\* _state followed by _add_global_features: the extractors in their fixed
\* order, each adding its fields to the record.
FState(c, a) ==
    LET s1 == AddFacilityFeatures(c, a) @@ AddStorageFeatures(c, a)
        s2 == s1 @@ AddSaleFeatures(c, a)
        s3 == s2 @@ AddVltFeatures(c, a)
        s4 == s3 @@ AddConsumerFeatures(c, a, s3)
    IN  s4 @@ AddPriceFeatures(c, a) @@ AddGlobalFeatures(c)

\* ---------------------------------------------------- _serialize_state
\* keys_in_state: the fixed field order, each group with its normalize-by
\* reference field ("" for None).
KeysInState ==
    <<[norm |-> "", fields |-> <<"is_over_stock", "is_out_of_stock", "is_below_rop",
                                 "constraint_idx", "is_accepted", "consumption_hist">>],
      [norm |-> "storage_capacity", fields |-> <<"storage_utilization">>],
      [norm |-> "sale_gamma", fields |-> <<"sale_std", "sale_hist", "pending_order",
                                           "inventory_in_stock", "inventory_in_transit",
                                           "inventory_estimated", "inventory_rop">>],
      [norm |-> "max_price", fields |-> <<"sku_price", "sku_cost">>]>>

\* The fields the extractors fill with a list; isinstance(vals, list) holds
\* for these and no others.
ListFields == {"constraint_idx", "is_accepted", "consumption_hist", "sale_hist",
               "pending_order", "backlog_demand_hist"}

\* Raised by x / 0.
ZeroDivision == <<0, 0>>

\* x / (reference + 0.01)
NormQuotient(x, reference) ==
    LET divisor == RAdd(reference, <<1, 100>>)
    IN  IF divisor[1] = 0 THEN ZeroDivision
        ELSE Rat(x[1] * divisor[2], x[2] * divisor[1])

\* The quotient with its lower clamp only.
NormalizeNoCeiling(x, reference) ==
    LET q == NormQuotient(x, reference)
    IN  IF q = ZeroDivision THEN ZeroDivision ELSE RMax(R(0), q)

\* max(0.0, min(100.0, x / (reference + 0.01)))
Normalize(x, reference) ==
    LET q == NormQuotient(x, reference)
    IN  IF q = ZeroDivision THEN ZeroDivision ELSE RMax(R(0), RMin(R(100), q))

\* The values one field contributes to the vector.
FieldVals(raw, norm, field) ==
    LET vals == IF field \in ListFields THEN raw[field] ELSE <<raw[field]>>
    IN  IF norm = "" THEN vals
        ELSE SeqOf([i \in 1..Len(vals) |-> Normalize(vals[i], raw[norm])])

RECURSIVE Flatten(_)
Flatten(ss) == IF Len(ss) = 0 THEN <<>> ELSE Head(ss) \o Flatten(Tail(ss))

\* The vector of one agent: every group's fields in order.
SerializeAgent(raw) ==
    Flatten(SeqOf([g \in 1..Len(KeysInState) |->
                Flatten(SeqOf([f \in 1..Len(KeysInState[g].fields) |->
                            FieldVals(raw, KeysInState[g].norm, KeysInState[g].fields[f])]))]))

\* _serialize_state: one vector per role and agent.
SerializeState(state) ==
    Table([role \in DOMAIN state |->
              Table([agent_id \in DOMAIN state[role] |->
                        SerializeAgent(state[role][agent_id])])])

\* ------------------------------------------------------------ _get_state
\* {pid: pnum for pid, pnum in zip(product_list, product_number)}
ZipDict(keys, vals) ==
    LET n == IF Len(keys) < Len(vals) THEN Len(keys) ELSE Len(vals)
    IN  [k \in {keys[i] : i \in 1..n} |->
            vals[CHOOSE i \in 1..n : keys[i] = k /\ \A j \in (i + 1)..n : keys[j] # k]]

\* The dict built once, from the storage node of index 0, and kept for every
\* agent of the batch.
StorageProductsBuiltOnce(c, a) ==
    LET frame == c.snapshot_list[c.tick + 1]
    IN  ZipDict(frame.storage[0].product_list, frame.storage[0].product_number)

\* The storage node's product_list/product_number at the current tick, as
\* the dict _get_state caches before it builds an agent's state.
StorageProducts(c, a) ==
    LET storage_index == c.facility_levels[a.facility_id].units["storage"].node_index
        frame == c.snapshot_list[c.tick + 1]
    IN  ZipDict(frame.storage[storage_index].product_list,
                frame.storage[storage_index].product_number)

\* The record of one agent of the loop: the storage dict is re-read, then
\* _state and _add_global_features run on it.
AgentState(c, a) ==
    IF "storage" \notin DOMAIN c.facility_levels[a.facility_id].units
    THEN [error |-> "KeyError"]
    ELSE FState([c EXCEPT !.storage_products = StorageProducts(c, a)], a)

\* The two roles built from different records: the producer's sale_std is
\* one more.
StateByRoleDiverged(fstates) ==
    [consumer |-> fstates,
     producer |-> [id \in DOMAIN fstates |->
                      [fstates[id] EXCEPT !.sale_std = RAdd(@, R(1))]]]

\* state['consumer'][id] = f_state; state['producer'][id] = f_state
StateByRole(fstates) == [consumer |-> fstates, producer |-> fstates]

\* What _get_state returns, or the error it raises.
GetStateOutcome(c, agents) ==
    LET ids == {agents[i].id : i \in 1..Len(agents)}
        last(id) == CHOOSE i \in 1..Len(agents) :
                        agents[i].id = id /\ \A j \in (i + 1)..Len(agents) : agents[j].id # id
        fstates == Table([id \in ids |-> AgentState(c, agents[last(id)])])
        errors == {fstates[id].error : id \in ids} \ {"none"}
        state == StateByRole(fstates)
        result == SerializeState(state)
        divErr == \E role \in DOMAIN result : \E id \in DOMAIN result[role] :
                      \E k \in 1..Len(result[role][id]) : result[role][id][k] = ZeroDivision
    IN  IF errors # {}
        THEN [op |-> "get_state", error |-> CHOOSE e \in errors : TRUE, val |-> <<>>]
        ELSE IF divErr
        THEN [op |-> "get_state", error |-> "ZeroDivisionError", val |-> <<>>]
        ELSE [op |-> "get_state", error |-> "none",
              val |-> [state |-> state, result |-> result]]

\* ------------------------------------------------------------ get_reward
\* parent_facility_balance[f_id]: the owning facility's sheet for a unit of
\* the reverse map, the entity's own sheet otherwise.
ParentFacilityBalance(sheet, u2f, f_id) ==
    IF f_id \in DOMAIN u2f THEN sheet[u2f[f_id]] ELSE sheet[f_id]

\* The blend with its two weights exchanged.
ConsumerRewardSwapped(wc, parent, reward) ==
    RAdd(RMul(wc, R(reward)), RMul(RSub(R(1), wc), R(parent)))

\* wc * parent_facility_balance[f_id] + (1 - wc) * reward
ConsumerReward(wc, parent, reward) ==
    RAdd(RMul(wc, R(parent)), RMul(RSub(R(1), wc), R(reward)))

\* rewards_by_agent["producer"][f_id] = reward
ProducerReward(reward) == R(reward)

\* step_balance_sheet = self._cur_metrics["step_balance_sheet"]
RewardSheet(cached_metrics) == cached_metrics.step_balance_sheet

\* What get_reward returns, or the KeyError of a unit whose facility has no
\* sheet.
GetRewardOutcome(cached_metrics, u2f, wc) ==
    LET sheet == RewardSheet(cached_metrics)
        missing == {f \in DOMAIN sheet : f \in DOMAIN u2f /\ u2f[f] \notin DOMAIN sheet}
    IN  IF missing # {}
        THEN [op |-> "get_reward", error |-> "KeyError", val |-> <<>>]
        ELSE [op |-> "get_reward", error |-> "none",
              val |-> [consumer |-> [f \in DOMAIN sheet |->
                           ConsumerReward(wc, ParentFacilityBalance(sheet, u2f, f), sheet[f])],
                       producer |-> [f \in DOMAIN sheet |-> ProducerReward(sheet[f])]]]

\* ------------------------------------------------------------ get_action
ConsumerAction(id, product_id, source_id, quantity, vlt) ==
    [type |-> "ConsumerAction", id |-> id, product_id |-> product_id,
     source_id |-> source_id, quantity |-> quantity, vlt |-> vlt]

ManufactureAction(id, production_rate) ==
    [type |-> "ManufactureAction", id |-> id, product_id |-> 0, source_id |-> 0,
     quantity |-> production_rate, vlt |-> 0]

\* The action of one agent id, given the side-table info (a dict).
EnvAction(info, agent_id, action) ==
    IF agent_id \in DOMAIN info
    THEN ConsumerAction(agent_id, info[agent_id].product_id, info[agent_id].source_id,
                        action, 1)
    ELSE ManufactureAction(agent_id, action)

\* The attribute initialised to an empty dict.
StateInfoEmptyDict(info) == Some(<<>>)

\* self.state_info as get_action finds it.  No method of the class assigns
\* the attribute, so the lookup finds nothing: None stands for the missing
\* attribute.
StateInfoLookup(info) == info

\* What get_action returns, or the AttributeError of the first loop
\* iteration when self.state_info does not exist.
GetActionOutcome(info, action_by_agent) ==
    LET found == StateInfoLookup(info)
    IN  IF DOMAIN action_by_agent = {}
        THEN [op |-> "get_action", error |-> "none",
              val |-> [input |-> action_by_agent, env_action |-> <<>>]]
        ELSE IF IsNone(found)
        THEN [op |-> "get_action", error |-> "AttributeError",
              val |-> [input |-> action_by_agent, env_action |-> <<>>]]
        ELSE [op |-> "get_action", error |-> "none",
              val |-> [input |-> action_by_agent,
                       env_action |-> [id \in DOMAIN action_by_agent |->
                                          EnvAction(Val(found), id, action_by_agent[id])]]]

\* ------------------------------------------------------------- the state
VARIABLES
    tick,                          \* env.tick
    env_metrics,                   \* env.metrics, the engine's dict of the current tick
    snapshot_list,                 \* env.snapshot_list, one frame per committed tick
    summary,                       \* env.summary['node_mapping']
    settings,                      \* env.configs.settings
    agent_list,                    \* self._agent_list
    facility_levels,               \* self.facility_levels
    unit_2_facility_dict,          \* self.unit_2_facility_dict
    cur_metrics,                   \* self._cur_metrics
    cur_facility_storage_products, \* self._cur_facility_storage_products
    state_info,                    \* self.state_info: None, no code assigns it
    state_tick,                    \* history: the tick of the last get_state, -1 before any
    ret                            \* the last call and what it returned or raised

vars == <<tick, env_metrics, snapshot_list, summary, settings, agent_list, facility_levels,
          unit_2_facility_dict, cur_metrics, cur_facility_storage_products, state_info,
          state_tick, ret>>

\* ------------------------------------------------------- the input sets
Settings(wc) ==
    [global_reward_weight_consumer |-> wc,
     constraint_state_hist_len |-> ConstraintStateHistLen,
     sale_hist_len |-> SaleHistLen,
     consumption_hist_len |-> ConsumptionHistLen,
     pending_order_len |-> PendingOrderLen]

\* pending_order_daily as the engine may report it: pending_order_len
\* values, small or large, or a list one entry short.
PendingDailyChoices ==
    {Repeat(0, PendingOrderLen), Repeat(1000, PendingOrderLen),
     Repeat(1, PendingOrderLen - 1)}

\* A balance sheet with the given values for facility 1, its products 5 and
\* 8 and facility 2, and zero elsewhere.
Sheet(smry, v1, v5, v8, v2) ==
    [e \in BalanceEntities(smry) |->
        IF e = 1 THEN v1 ELSE IF e = 5 THEN v5 ELSE IF e = 8 THEN v8
        ELSE IF e = 2 THEN v2 ELSE 0]

\* The sheets the engine publishes from tick to tick.
StepSheets(smry) ==
    {Sheet(smry, 1000, 200, 0, 0), Sheet(smry, -MaxQty, MaxQty, 1, 0)}

StepFrames == {Frame(0, 0, 0), Frame(MaxQty, 1, 1)}

\* ---------------------------------------------------------------- Init
\* The state after SCEnvWrapper(env): the topology is indexed, the metrics
\* of the construction tick are cached, no state has been built.
InitWith(Summaries, Wcs, Sheets, SaleMeans, SaleStds, Pods, Itos, Pos, Frames) ==
    /\ tick = 0
    /\ summary \in Summaries
    /\ \E wc \in Wcs : settings = Settings(wc)
    /\ \E v \in Sheets, sm \in SaleMeans, sd \in SaleStds, pod \in Pods,
          ito \in Itos, po \in Pos :
           env_metrics = EnvMetrics(summary, Sheet(summary, v[1], v[2], v[3], v[4]),
                                    sm, sd, pod, ito, po)
    /\ \E f \in Frames : snapshot_list = <<f>>
    /\ agent_list = AgentIdxList(summary)
    /\ facility_levels = BuildFacilityLevels(summary)
    /\ unit_2_facility_dict = BuildUnit2Facility(summary)
    /\ cur_metrics = env_metrics
    /\ cur_facility_storage_products = None
    /\ state_info = None
    /\ state_tick = -1
    /\ ret = [op |-> "init", error |-> "none", val |-> <<>>]

\* ------------------------------------------------------------- actions
\* env.step: the engine commits the next tick, publishing a new metrics
\* dict (a new balance sheet) and a new snapshot frame.
Step ==
    /\ tick < MaxTick
    /\ tick' = tick + 1
    /\ \E bs \in StepSheets(summary) :
           env_metrics' = [env_metrics EXCEPT !.step_balance_sheet = bs]
    /\ \E f \in StepFrames : snapshot_list' = Append(snapshot_list, f)
    /\ ret' = [op |-> "step", error |-> "none", val |-> <<>>]
    /\ UNCHANGED <<summary, settings, agent_list, facility_levels, unit_2_facility_dict,
                   cur_metrics, cur_facility_storage_products, state_info, state_tick>>

\* The context of one _get_state call: the metrics are refreshed first.
StateContext ==
    [tick |-> tick, metrics |-> env_metrics, snapshot_list |-> snapshot_list,
     summary |-> summary, settings |-> settings, facility_levels |-> facility_levels,
     storage_products |-> <<>>]

\* get_state(event)
GetState ==
    /\ cur_metrics' = env_metrics
    /\ ret' = GetStateOutcome(StateContext, agent_list)
    /\ cur_facility_storage_products' =
           IF Len(agent_list) = 0 THEN cur_facility_storage_products
           ELSE Some(StorageProducts(StateContext, agent_list[Len(agent_list)]))
    /\ state_tick' = tick
    /\ UNCHANGED <<tick, env_metrics, snapshot_list, summary, settings, agent_list,
                   facility_levels, unit_2_facility_dict, state_info>>

\* get_reward(tick)
GetReward ==
    /\ ret' = GetRewardOutcome(cur_metrics, unit_2_facility_dict,
                               settings.global_reward_weight_consumer)
    /\ UNCHANGED <<tick, env_metrics, snapshot_list, summary, settings, agent_list,
                   facility_levels, unit_2_facility_dict, cur_metrics,
                   cur_facility_storage_products, state_info, state_tick>>

\* The agent ids a caller may pass: agents of the list and one id that is
\* no agent.
UnknownAgentIds == {99}
ActionInputs ==
    {<<>>, (1 :> MaxQty), (5 :> MaxQty) @@ (8 :> 1)}
    \cup {(u :> 1) : u \in UnknownAgentIds}
    \cup {(5 :> 1) @@ (u :> MaxQty) : u \in UnknownAgentIds}

\* get_action(action_by_agent)
GetAction ==
    /\ \E action_by_agent \in ActionInputs :
           ret' = GetActionOutcome(state_info, action_by_agent)
    /\ UNCHANGED <<tick, env_metrics, snapshot_list, summary, settings, agent_list,
                   facility_levels, unit_2_facility_dict, cur_metrics,
                   cur_facility_storage_products, state_info, state_tick>>

\* ------------------------------------------------------ specifications
\* The wrapper driven by an engine and a caller in any interleaving.
Init ==
    InitWith({NodeMapping(2 * MaxQty, ups, 1, hs, <<19, 20>>) :
                 ups \in {<<>>, <<2, 3>>}, hs \in {TRUE}},
             {<<1, 2>>},
             {<<1000, 200, 0, 0>>, <<-MaxQty, MaxQty, 1, 0>>},
             {2}, {1}, PendingDailyChoices, {1}, {None}, StepFrames)

Next == Step \/ GetState \/ GetReward \/ GetAction

Spec == Init /\ [][Next]_vars

\* get_reward applied to every balance sheet and weight of the input sets.
BalanceValues == {-MaxQty, 0, 200, 1000}

InitReward ==
    InitWith({NodeMapping(2 * MaxQty, <<2, 3>>, 1, TRUE, <<19, 20>>)},
             {R(0), <<1, 4>>, <<1, 2>>, <<3, 4>>, R(1)},
             BalanceValues \X BalanceValues \X BalanceValues \X BalanceValues,
             {2}, {1}, {Repeat(0, PendingOrderLen)}, {1}, {None}, {Frame(MaxQty, 1, 1)})

NextReward == GetReward

SpecReward == InitReward /\ [][NextReward]_vars

\* get_state applied to every topology, metrics and stock of the input sets.
InitState ==
    InitWith({NodeMapping(cap, ups, mv, hs, sl) :
                 cap \in {0, 1, 2 * MaxQty}, ups \in {<<>>, <<2, 3>>}, mv \in {0, 2},
                 hs \in BOOLEAN, sl \in {<<19, 20>>, <<1, 10>>}},
             {<<1, 2>>},
             {<<1000, 200, 0, 0>>},
             {0, 2}, {1},
             {Repeat(0, PendingOrderLen), Repeat(1000, PendingOrderLen)},
             {0, MaxQty},
             {None, Some(1), Some(2 * MaxQty + 1)},
             {Frame(q, 1, 1) : q \in {0, 1, MaxQty}})

NextState == GetState

SpecState == InitState /\ [][NextState]_vars

\* ================================================================ claims
AgentIds == {agent_list[i].id : i \in 1..Len(agent_list)}

AgentById(id) == agent_list[CHOOSE i \in 1..Len(agent_list) : agent_list[i].id = id]

\* get_state has just returned a result.
GotState == ret.op = "get_state" /\ ret.error = "none"

RawOf(role, id) == ret.val.state[role][id]
VecOf(role, id) == ret.val.result[role][id]
Roles == {"consumer", "producer"}

\* The agent is a product agent whose bundle, in the engine's summary, has a
\* consumer sub-unit.
HasConsumer(a) ==
    /\ ~a.is_facility
    /\ ~IsNone(summary.facilities[a.facility_id].units.products[Val(a.sku).id].consumer)

\* The upstream sources the summary lists for the agent's SKU.
UpstreamsOf(a) ==
    LET ups == summary.facilities[a.facility_id].upstreams
    IN  IF Val(a.sku).id \in DOMAIN ups THEN ups[Val(a.sku).id] ELSE <<>>

\* The engine's figures for a product agent's own SKU at the current tick.
OnHand(a) ==
    LET node == Val(summary.facilities[a.facility_id].units.storage).node_index
        st == snapshot_list[tick + 1].storage[node]
        i == CHOOSE k \in 1..Len(st.product_list) : st.product_list[k] = Val(a.sku).id
    IN  st.product_number[i]

InTransit(a) == env_metrics.facilities[a.facility_id].in_transit_orders[Val(a.sku).id]

PendingOutflow(a) ==
    LET po == env_metrics.facilities[a.facility_id].pending_order
    IN  IF IsNone(po) THEN 0 ELSE Val(po)[Val(a.sku).id]

\* ---------------------------------------------------------------- C1
\* C1: for every balance sheet and every weight wc in [0,1], get_reward
\* returns producer[x] = balance[x] and consumer[x] = wc * parentBalance[x]
\* + (1 - wc) * balance[x] for every entity x of the sheet, parentBalance[x]
\* being the balance of the facility that owns x for a product unit and
\* balance[x] itself for a facility; so wc = 0 gives consumer = producer and
\* wc = 1 gives consumer = parentBalance.
C1_RewardBlend ==
    ret.op = "get_reward" =>
        LET sheet == cur_metrics.step_balance_sheet
            wc == settings.global_reward_weight_consumer
            owner == (5 :> 1) @@ (8 :> 1) @@ (11 :> 2) @@ (13 :> 3)
            parent(x) == IF x \in DOMAIN owner THEN sheet[owner[x]] ELSE sheet[x]
        IN  /\ ret.error = "none"
            /\ DOMAIN ret.val.producer = DOMAIN sheet
            /\ DOMAIN ret.val.consumer = DOMAIN sheet
            /\ \A x \in DOMAIN sheet :
                   LET p == ret.val.producer[x]
                       q == ret.val.consumer[x]
                   IN  /\ p = <<sheet[x], 1>>
                       /\ q[2] > 0
                       /\ q[1] * wc[2]
                              = q[2] * (wc[1] * parent(x) + (wc[2] - wc[1]) * sheet[x])
                       /\ (wc = <<0, 1>> => q = p)
                       /\ (wc = <<1, 1>> => q = <<parent(x), 1>>)

\* The scenario of the specification: sheet {F: 1000, product under F: 200}
\* and wc = 0.5 give consumer 600 and producer 200 for the product.
C1_Witness ==
    /\ ret.op = "get_reward"
    /\ ret.error = "none"
    /\ settings.global_reward_weight_consumer = <<1, 2>>
    /\ cur_metrics.step_balance_sheet[1] = 1000
    /\ cur_metrics.step_balance_sheet[5] = 200
    /\ ret.val.consumer[5] = <<600, 1>>
    /\ ret.val.producer[5] = <<200, 1>>

\* ---------------------------------------------------------------- C2
\* The total width of the fixed field order under the settings.
ExpectedWidth ==
    3 + 1 + settings.constraint_state_hist_len + settings.consumption_hist_len
    + 1 + 1 + settings.sale_hist_len + settings.pending_order_len + 4 + 2

\* C2: the vector get_state returns for an agent has the total width of the
\* fixed field order, the same for every agent and role at every tick,
\* whatever the metrics (pending_order_daily included) contain.
C2_FixedLength ==
    ret.op = "get_state" =>
        /\ ret.error = "none"
        /\ \A role \in Roles : \A id \in AgentIds : Len(VecOf(role, id)) = ExpectedWidth

\* ---------------------------------------------------------------- C3
\* The field order of the vector with each field's normalize-by reference.
FieldOrder ==
    <<<<"is_over_stock", "">>, <<"is_out_of_stock", "">>, <<"is_below_rop", "">>,
      <<"constraint_idx", "">>, <<"is_accepted", "">>, <<"consumption_hist", "">>,
      <<"storage_utilization", "storage_capacity">>,
      <<"sale_std", "sale_gamma">>, <<"sale_hist", "sale_gamma">>,
      <<"pending_order", "sale_gamma">>, <<"inventory_in_stock", "sale_gamma">>,
      <<"inventory_in_transit", "sale_gamma">>, <<"inventory_estimated", "sale_gamma">>,
      <<"inventory_rop", "sale_gamma">>,
      <<"sku_price", "max_price">>, <<"sku_cost", "max_price">>>>

IsListField(f) ==
    f \in {"constraint_idx", "is_accepted", "consumption_hist", "sale_hist", "pending_order"}

RawVals(raw, f) == IF IsListField(f) THEN raw[f] ELSE <<raw[f]>>

\* Where field number k starts in the vector (0-based offset).
RECURSIVE OffsetOf(_, _)
OffsetOf(raw, k) ==
    IF k = 1 THEN 0 ELSE OffsetOf(raw, k - 1) + Len(RawVals(raw, FieldOrder[k - 1][1]))

\* q is clamp(v / (r + 0.01), 0, 100) for rationals v, r with r >= 0.
IsClampedQuotient(q, v, r) ==
    LET d == Rat(100 * r[1] + r[2], 100 * r[2])
        x == Rat(v[1] * d[2], v[2] * d[1])
    IN  /\ d[1] > 0
        /\ q[2] > 0
        /\ 0 <= q[1] /\ q[1] <= 100 * q[2]
        /\ IF x[1] < 0 THEN q = <<0, 1>>
           ELSE IF x[1] > 100 * x[2] THEN q = <<100, 1>>
           ELSE q = x

\* C3: every value _serialize_state emits for a field with a normalize-by
\* reference equals clamp(v / (reference + 0.01), 0.0, 100.0), so lies in
\* [0.0, 100.0], for any raw value v and any reference >= 0, and the
\* division never has a zero divisor.
C3_NormalizedClamped ==
    ret.op = "get_state" =>
        /\ ret.error # "ZeroDivisionError"
        /\ ret.error = "none" =>
               \A role \in Roles : \A id \in AgentIds :
                   \A k \in 1..Len(FieldOrder) :
                       LET raw == RawOf(role, id)
                           f == FieldOrder[k][1]
                           norm == FieldOrder[k][2]
                           vals == RawVals(raw, f)
                           off == OffsetOf(raw, k)
                       IN  (norm # "" /\ raw[norm][1] >= 0) =>
                               \A i \in 1..Len(vals) :
                                   IsClampedQuotient(VecOf(role, id)[off + i], vals[i],
                                                     raw[norm])

\* A reference of 0 (sale_gamma) under a large raw value (pending_order):
\* the quotient 1000 / 0.01 is clamped to 100; and a negative estimate is
\* clamped to 0.
C3_Witness ==
    /\ GotState
    /\ RawOf("consumer", 5).sale_gamma = <<0, 1>>
    /\ RawOf("consumer", 5).pending_order[1] = <<1000, 1>>
    /\ VecOf("consumer", 5)[OffsetOf(RawOf("consumer", 5), 10) + 1] = <<100, 1>>
    /\ RawOf("consumer", 5).inventory_estimated[1] < 0
    /\ VecOf("consumer", 5)[OffsetOf(RawOf("consumer", 5), 13) + 1] = <<0, 1>>

\* ---------------------------------------------------------------- C4
\* What the claim of C4 says of one agent's raw state.
ConsumerFiguresOf(a, raw) ==
    LET est == OnHand(a) + InTransit(a) - PendingOutflow(a)
        cap == raw.storage_capacity
        rop == raw.inventory_rop
    IN  /\ raw.inventory_estimated = <<est, 1>>
        /\ raw.is_over_stock = <<IF 2 * est * cap[2] >= cap[1] THEN 1 ELSE 0, 1>>
        /\ raw.is_out_of_stock = <<IF est <= 0 THEN 1 ELSE 0, 1>>
        /\ raw.is_below_rop = <<IF est * rop[2] < rop[1] THEN 1 ELSE 0, 1>>

C5_NoConsumerDefaults ==
    ret.op = "get_state" =>
        /\ ret.error = "none"
        /\ \A i \in 1..Len(agent_list) :
               LET a == agent_list[i]
                   raw == RawOf("consumer", a.id)
               IN  ~HasConsumer(a) =>
                       /\ raw.inventory_in_stock = <<0, 1>>
                       /\ raw.inventory_rop = <<0, 1>>
                       /\ raw.is_over_stock = <<0, 1>>
                       /\ raw.is_out_of_stock = <<0, 1>>
                       /\ raw.is_below_rop = <<0, 1>>

\* Facility agent 1 and product agent 8 (no consumer) keep the defaults in a
\* state where the storage holds stock of agent 8's SKU and the consumer
\* agent of the same facility got computed figures.
C5_Witness ==
    /\ GotState
    /\ ~HasConsumer(AgentById(1))
    /\ ~HasConsumer(AgentById(8))
    /\ OnHand(AgentById(8)) > 0
    /\ RawOf("consumer", 8).inventory_in_stock = <<0, 1>>
    /\ RawOf("consumer", 8).is_out_of_stock = <<0, 1>>
    /\ RawOf("consumer", 1).is_over_stock = <<0, 1>>
    /\ RawOf("consumer", 5).inventory_in_stock # <<0, 1>>

\* ---------------------------------------------------------------- C6
\* C6 as stated: after state building no agent has is_over_stock and
\* is_out_of_stock both 1.
C6_NeverBoth ==
    ret.op = "get_state" =>
        /\ ret.error = "none"
        /\ \A role \in Roles : \A id \in AgentIds :
               ~(/\ RawOf(role, id).is_over_stock = <<1, 1>>
                 /\ RawOf(role, id).is_out_of_stock = <<1, 1>>)

\* C6 amended: after state building no agent whose facility's storage
\* capacity is positive has is_over_stock and is_out_of_stock both 1.
C6_NeverBothWithCapacity ==
    ret.op = "get_state" =>
        /\ ret.error = "none"
        /\ \A role \in Roles : \A id \in AgentIds :
               RawOf(role, id).storage_capacity[1] > 0 =>
                   ~(/\ RawOf(role, id).is_over_stock = <<1, 1>>
                     /\ RawOf(role, id).is_out_of_stock = <<1, 1>>)

\* A positive capacity with an estimate of at most 0: out of stock and not
\* over stock.
C6_Witness ==
    /\ GotState
    /\ RawOf("consumer", 5).storage_capacity[1] > 0
    /\ Len(UpstreamsOf(AgentById(5))) > 0
    /\ RawOf("consumer", 5).is_out_of_stock = <<1, 1>>
    /\ RawOf("consumer", 5).is_over_stock = <<0, 1>>

\* ---------------------------------------------------------------- C7
\* The agent id belongs to an entity that can replenish: a product agent
\* whose bundle has a consumer sub-unit.
Replenishable(id) == id \in AgentIds /\ HasConsumer(AgentById(id))

\* C7: after get_state has built the states of a tick, get_action maps
\* every replenishment-capable agent id to a replenishment action
\* (agent_id, product_id, source_id, quantity_factor, 1), every other known
\* agent id to a production-order action (agent_id, quantity_factor), and
\* returns a map with exactly the keys of its input.
C7_TypedActions ==
    (ret.op = "get_action" /\ state_tick >= 0
         /\ DOMAIN ret.val.input \subseteq AgentIds) =>
        /\ ret.error = "none"
        /\ DOMAIN ret.val.env_action = DOMAIN ret.val.input
        /\ \A id \in DOMAIN ret.val.input :
               LET act == ret.val.env_action[id]
               IN  IF Replenishable(id)
                   THEN /\ act.type = "ConsumerAction"
                        /\ act.id = id
                        /\ act.product_id = Val(AgentById(id).sku).id
                        /\ act.quantity = ret.val.input[id]
                        /\ act.vlt = 1
                   ELSE act = ManufactureAction(id, ret.val.input[id])

\* ---------------------------------------------------------------- C8
\* C8: get_action fails with a fatal error whenever its input contains an
\* agent id that is not a known agent, and returns no typed action for such
\* an id.
C8_UnknownAgentFatal ==
    (ret.op = "get_action" /\ DOMAIN ret.val.input \ AgentIds # {}) =>
        /\ ret.error # "none"
        /\ DOMAIN ret.val.env_action \ AgentIds = {}

\* get_action called, after a get_state, with a known and an unknown agent
\* id, and failed.
C8_Witness ==
    /\ ret.op = "get_action"
    /\ state_tick >= 0
    /\ 5 \in DOMAIN ret.val.input
    /\ \E u \in UnknownAgentIds : u \in DOMAIN ret.val.input
    /\ ret.error = "AttributeError"
    /\ ret.val.env_action = <<>>

\* ---------------------------------------------------------------- C9
\* C9: the consumer map and the producer map _get_state returns have the
\* same keys, the ids of the agent list, and under every key the two
\* vectors are equal.
C9_RolesAgree ==
    ret.op = "get_state" =>
        /\ ret.error = "none"
        /\ DOMAIN ret.val.result = Roles
        /\ DOMAIN ret.val.result.consumer = AgentIds
        /\ DOMAIN ret.val.result.producer = AgentIds
        /\ \A id \in AgentIds : VecOf("consumer", id) = VecOf("producer", id)

\* Both maps filled with vectors that differ between agents: agent 5's is
\* not agent 8's, and both roles carry agent 5's.
C9_Witness ==
    /\ GotState
    /\ state_tick = tick
    /\ VecOf("consumer", 5) # VecOf("consumer", 8)
    /\ Len(VecOf("producer", 5)) > 0
    /\ VecOf("producer", 5) = VecOf("consumer", 5)

\* --------------------------------------------------------------- C10
\* C10: in any interleaving of steps and calls, get_reward called at tick T
\* returns the rewards of tick T's balance sheet, the engine's current
\* metrics, even when no get_state was called at T.
C10_RewardOfCurrentTick ==
    ret.op = "get_reward" =>
        /\ ret.error = "none"
        /\ ret.val.producer = [f \in DOMAIN env_metrics.step_balance_sheet |->
                                  <<env_metrics.step_balance_sheet[f], 1>>]

\* --------------------------------------------------------------- C11
\* The storage node of an agent's facility in the frame of the current tick.
StorageNodeOf(a) ==
    snapshot_list[tick + 1].storage[
        Val(summary.facilities[a.facility_id].units.storage).node_index]

\* The on-hand quantity the node holds of SKU sid, 0 when it holds none.
QuantityOf(node, sid) ==
    IF \E i \in 1..Len(node.product_list) : node.product_list[i] = sid
    THEN node.product_number[CHOOSE i \in 1..Len(node.product_list) :
                                 node.product_list[i] = sid]
    ELSE 0

\* C11: within one get_state batch any two agents of the same facility are
\* built from the same storage contents, so their storage_levels and
\* storage_utilization are equal; storage_levels holds, per SKU id, the
\* quantity of the facility's storage node at the current tick, and
\* storage_utilization is the sum of all these quantities.
C11_StorageConsistent ==
    ret.op = "get_state" =>
        /\ ret.error = "none"
        /\ \A i \in 1..Len(agent_list) :
               LET a == agent_list[i]
                   raw == RawOf("consumer", a.id)
                   node == StorageNodeOf(a)
               IN  /\ raw.storage_utilization = <<SumSeq(node.product_number), 1>>
                   /\ Len(raw.storage_levels) = Len(summary.skus) + 1
                   /\ \A k \in 1..Len(raw.storage_levels) :
                          raw.storage_levels[k] = QuantityOf(node, k - 1)
                   /\ \A j \in 1..Len(agent_list) :
                          agent_list[j].facility_id = a.facility_id =>
                              LET other == RawOf("consumer", agent_list[j].id)
                              IN  /\ other.storage_levels = raw.storage_levels
                                  /\ other.storage_utilization = raw.storage_utilization

\* A batch built after the engine advanced and changed facility 1's stock:
\* the three agents of facility 1 carry the new stock, the agent of
\* facility 2 its own.
C11_Witness ==
    /\ GotState
    /\ tick >= 1
    /\ snapshot_list[tick + 1].storage[0].product_number
           # snapshot_list[1].storage[0].product_number
    /\ RawOf("consumer", 1).storage_utilization = <<MaxQty + 1, 1>>
    /\ RawOf("consumer", 5).storage_utilization = <<MaxQty + 1, 1>>
    /\ RawOf("consumer", 8).storage_levels = RawOf("consumer", 5).storage_levels
    /\ RawOf("consumer", 11).storage_utilization = <<MaxQty, 1>>

\* --------------------------------------------------------------- C12
\* The lead time facility fid has configured for SKU sid.
ConfiguredVlt(fid, sid) == summary.facilities[fid].skus[sid].vlt

\* C12: for a product agent with a consumer sub-unit and SKU id s, the vlt
\* vector has length max_sources_per_facility * (sku_count + 1); for each
\* upstream source position i of the facility's upstream list for s, slot
\* i * sku_count + s lies inside the vector and holds the lead time source
\* i has configured for s; every other slot is 0.
C12_VltSlots ==
    ret.op = "get_state" =>
        /\ ret.error = "none"
        /\ \A n \in 1..Len(agent_list) :
               LET a == agent_list[n]
                   s == Val(a.sku).id
                   ups == UpstreamsOf(a)
                   sku_count == Len(summary.skus)
                   vlt == RawOf("consumer", a.id).vlt
               IN  HasConsumer(a) =>
                       /\ Len(vlt) = env_metrics.max_sources_per_facility * (sku_count + 1)
                       /\ \A i \in 0..(Len(ups) - 1) : i * sku_count + s < Len(vlt)
                       /\ \A k \in 0..(Len(vlt) - 1) :
                              vlt[k + 1] =
                                  IF \E i \in 0..(Len(ups) - 1) : k = i * sku_count + s
                                  THEN ConfiguredVlt(
                                           ups[1 + CHOOSE i \in 0..(Len(ups) - 1) :
                                                       k = i * sku_count + s], s)
                                  ELSE 0

====
